---- MODULE Spec2Model ----
(***************************************************************************)
(* Model of the build tool (BuildCubeTool.execute) and of the world tool   *)
(* (WorldTool.execute, WorldTool.executeSequenceStep) of the Minecraft     *)
(* Bedrock MCP server, together with the gateway (this.world) they call.   *)
(*                                                                         *)
(* A request's numeric coordinates are held in half units (the number 0.5  *)
(* is 1, the number -64.5 is -129), so that Math.floor does real work.     *)
(* A string that the code inspects (a material) is a sequence of tokens,   *)
(* the token ":" being the namespace separator.  An optional field of a    *)
(* request is None when omitted and Some(v) when given.                    *)
(***************************************************************************)
EXTENDS Integers, Sequences, FiniteSets, TLC

(* ------------------------------------------------------------------ *)
(* Bounds of the model                                                 *)
(* ------------------------------------------------------------------ *)

\* the gateway reports an affected-block count in 0..MaxAffected
MaxAffected == 2

\* a sequence request carries at most MaxSteps steps
MaxSteps == 2

\* a build request omits at most MaxOmitted of its coordinates
MaxOmitted == 1

\* request coordinates, in half units
XHalves == {-1, 0, 4, 400}
YHalves == {-129, -128, 0, 641, 642}
ZHalves == {0, 4, 400}

None == <<>>
Some(v) == <<v>>

Materials == {None, Some(<<"stone">>), Some(<<"mod", ":", "brick">>)}
BuildActions == {None, Some("build"), Some("destroy")}

\* the error messages a rejecting gateway call carries
GatewayErrors == {"timeout"}

\* the values a resolving gateway read produces
GatewayValues == {0, 6000}

(* ------------------------------------------------------------------ *)
(* Program constants                                                   *)
(* ------------------------------------------------------------------ *)

MinY == -64
MaxY == 320
MaxVolume == 32768

\* messages are token sequences: the fixed text, then the interpolated strings
MsgUnknownAction == <<"Unknown action">>
MsgYBounds == <<"Y coordinates must be between -64 and 320">>
MsgVolume == <<"Volume too large (maximum 32768 blocks)">>
MsgNoWorld == <<"World not available. Ensure Minecraft is connected.">>
MsgBuilt == <<"cube built">>
MsgBuildingError(e) == <<"Building error", e>>
MsgTimeRequired == <<"Time required for set_time">>
MsgWeatherRequired == <<"Weather required for set_weather">>
MsgMessageRequired == <<"Message required for send_message">>
MsgCommandRequired == <<"Command required for run_command">>
MsgStepsRequired == <<"steps array is required for sequence action">>
MsgWorldError(e) == <<"World management error", e>>

(* ------------------------------------------------------------------ *)
(* Pure helpers of the build tool                                      *)
(* ------------------------------------------------------------------ *)

\* An omitted coordinate is undefined, which Math.floor turns into NaN.  Both are
\* held as NaN, an integer outside every number the model computes; the
\* operators below are the JavaScript ones, which NaN passes through and which
\* compare NaN false.
NaN == -1000000
IsNaN(a) == a = NaN

Add(a, b) == IF IsNaN(a) \/ IsNaN(b) THEN NaN ELSE a + b
Sub(a, b) == IF IsNaN(a) \/ IsNaN(b) THEN NaN ELSE a - b
Mul(a, b) == IF IsNaN(a) \/ IsNaN(b) THEN NaN ELSE a * b
Lt(a, b) == ~IsNaN(a) /\ ~IsNaN(b) /\ a < b
Gt(a, b) == ~IsNaN(a) /\ ~IsNaN(b) /\ a > b
Le(a, b) == ~IsNaN(a) /\ ~IsNaN(b) /\ a <= b

Abs(n) == IF IsNaN(n) THEN NaN ELSE IF n < 0 THEN -n ELSE n
Min(a, b) == IF IsNaN(a) \/ IsNaN(b) THEN NaN ELSE IF a < b THEN a ELSE b
Max(a, b) == IF IsNaN(a) \/ IsNaN(b) THEN NaN ELSE IF a > b THEN a ELSE b

\* Math.floor of a number held in half units
Floor(h) == IF IsNaN(h) THEN NaN ELSE h \div 2

\* destructuring default: `field = dflt`
Default(v, dflt) == IF v = None THEN dflt ELSE v[1]

\* const coords = { x1: Math.floor(x1), ... }
Coords(r) ==
    [x1 |-> Floor(r.x1), y1 |-> Floor(r.y1), z1 |-> Floor(r.z1),
     x2 |-> Floor(r.x2), y2 |-> Floor(r.y2), z2 |-> Floor(r.z2)]

\* variant: only the first corner's y is checked
YOutOfBounds_FirstCornerOnly(c) == Lt(c.y1, MinY) \/ Gt(c.y1, MaxY)

\* coords.y1 < -64 || coords.y1 > 320 || coords.y2 < -64 || coords.y2 > 320
YOutOfBounds(c) ==
    Lt(c.y1, MinY) \/ Gt(c.y1, MaxY) \/ Lt(c.y2, MinY) \/ Gt(c.y2, MaxY)

\* Math.abs(x2 - x1 + 1) * Math.abs(y2 - y1 + 1) * Math.abs(z2 - z1 + 1)
Volume(c) ==
    Mul(Mul(Abs(Add(Sub(c.x2, c.x1), 1)), Abs(Add(Sub(c.y2, c.y1), 1))),
        Abs(Add(Sub(c.z2, c.z1), 1)))

\* variant: the namespace is prefixed whether or not the name has one
BlockId_AlwaysPrefix(material) == <<"minecraft", ":">> \o material

\* blockId.includes(':')
Includes(s, tok) == \E i \in 1..Len(s) : s[i] = tok

\* let blockId = material; if (!blockId.includes(':')) blockId = `minecraft:${blockId}`
BlockId(material) ==
    IF Includes(material, ":") THEN material ELSE <<"minecraft", ":">> \o material

DefaultMaterial == <<"minecraft", ":", "stone">>
Air == <<"minecraft", ":", "air">>

Point(x, y, z) == [x |-> x, y |-> y, z |-> z]

\* a call of a gateway method
Call(op, args) == [op |-> op, args |-> args]

\* this.world.fillBlocks(from, to, blockId)
FillCall(from, to, block) == Call("fillBlocks", <<from, to, block>>)

\* the inner box of a hollow build: per-axis min + 1 .. max - 1
Inner(c) ==
    [x1 |-> Add(Min(c.x1, c.x2), 1), y1 |-> Add(Min(c.y1, c.y2), 1),
     z1 |-> Add(Min(c.z1, c.z2), 1),
     x2 |-> Sub(Max(c.x1, c.x2), 1), y2 |-> Sub(Max(c.y1, c.y2), 1),
     z2 |-> Sub(Max(c.z1, c.z2), 1)]

\* variant: the interior test with < in place of <=
HasInterior_Strict(c) ==
    LET i == Inner(c) IN Lt(i.x1, i.x2) /\ Lt(i.y1, i.y2) /\ Lt(i.z1, i.z2)

\* innerX1 <= innerX2 && innerY1 <= innerY2 && innerZ1 <= innerZ2
HasInterior(c) ==
    LET i == Inner(c) IN Le(i.x1, i.x2) /\ Le(i.y1, i.y2) /\ Le(i.z1, i.z2)

\* variant: the volume check left out
BuildGuard_NoVolumeCheck(r, w) ==
    LET c == Coords(r) IN
    IF Default(r.action, "build") # "build" THEN MsgUnknownAction
    ELSE IF YOutOfBounds(c) THEN MsgYBounds
    ELSE IF ~w THEN MsgNoWorld
    ELSE <<>>

\* the outcome of the checks made before the first gateway call, <<>> when all pass
BuildGuard(r, w) ==
    LET c == Coords(r) IN
    IF Default(r.action, "build") # "build" THEN MsgUnknownAction
    ELSE IF YOutOfBounds(c) THEN MsgYBounds
    ELSE IF Gt(Volume(c), MaxVolume) THEN MsgVolume
    ELSE IF ~w THEN MsgNoWorld
    ELSE <<>>

\* variant: the first fill with its corners sorted to min and max
OuterFill_Sorted(r) ==
    LET c == Coords(r) IN
    FillCall(Point(Min(c.x1, c.x2), Min(c.y1, c.y2), Min(c.z1, c.z2)),
             Point(Max(c.x1, c.x2), Max(c.y1, c.y2), Max(c.z1, c.z2)),
             BlockId(Default(r.material, DefaultMaterial)))

\* the first fill of a build: the full region, corners as given
OuterFill(r) ==
    LET c == Coords(r) IN
    FillCall(Point(c.x1, c.y1, c.z1), Point(c.x2, c.y2, c.z2),
             BlockId(Default(r.material, DefaultMaterial)))

\* variant: the inner fill taken from the corners as given, without min/max
InnerFill_Unsorted(r) ==
    LET c == Coords(r) IN
    FillCall(Point(Add(c.x1, 1), Add(c.y1, 1), Add(c.z1, 1)),
             Point(Sub(c.x2, 1), Sub(c.y2, 1), Sub(c.z2, 1)), Air)

\* the second fill of a hollow build
InnerFill(r) ==
    LET i == Inner(Coords(r)) IN
    FillCall(Point(i.x1, i.y1, i.z1), Point(i.x2, i.y2, i.z2), Air)

(* ------------------------------------------------------------------ *)
(* State                                                               *)
(* ------------------------------------------------------------------ *)

VARIABLES
    world,        \* TRUE iff this.world is set (a world session is connected)
    tool,         \* the tool the request is for: "build" or "world"
    req,          \* the arguments of the request
    pc,           \* position of the running execute
    volume,       \* BuildCubeTool.execute: the local `volume` once computed, -1 before
    blocksPlaced, \* BuildCubeTool.execute: the local `blocksPlaced`
    calls,        \* the gateway calls issued so far, in order
    returns,      \* the values the gateway returned, in order
    inflight,     \* number of gateway calls issued and not yet settled
    outcome,      \* the ToolCallResult returned to the caller
    cur,          \* WorldTool.execute: the arguments of the running invocation
    got,          \* WorldTool.execute: values its awaits have produced so far
    idx,          \* sequence: 1-based index of the current step, 0 outside a sequence
    results,      \* sequence: the per-step outcomes recorded so far
    started,      \* history: the step indices started, in order
    dispatched,   \* history: the execute invocations made for steps
    stepOutcomes  \* history: what executeSequenceStep returned, in order

buildVars == <<volume, blocksPlaced>>
gateVars == <<calls, returns, inflight>>
seqVars == <<idx, results, started, dispatched, stepOutcomes>>
vars == <<world, tool, req, pc, volume, blocksPlaced, calls, returns, inflight,
          outcome, cur, got, idx, results, started, dispatched, stepOutcomes>>

NoOutcome == [success |-> FALSE, message |-> <<>>, data |-> <<>>]

Failure(msg) == [success |-> FALSE, message |-> msg, data |-> <<>>]

Success(msg, data) == [success |-> TRUE, message |-> msg, data |-> data]

\* { success: true, message: ..., data: { ..., volume: blocksPlaced } }
Built(n) == Success(MsgBuilt, <<n>>)

\* the coordinates of a request that are omitted
Omitted(r) == {f \in {"x1", "y1", "z1", "x2", "y2", "z2"} : IsNaN(r[f])}

\* at most MaxOmitted of the six coordinates of a request are omitted
BuildRequests ==
    {r \in [action : BuildActions,
            x1 : XHalves \cup {NaN}, y1 : YHalves \cup {NaN}, z1 : ZHalves \cup {NaN},
            x2 : XHalves \cup {NaN}, y2 : YHalves \cup {NaN}, z2 : ZHalves \cup {NaN},
            material : Materials, hollow : BOOLEAN] :
        Cardinality(Omitted(r)) <= MaxOmitted}

(* ------------------------------------------------------------------ *)
(* BuildCubeTool.execute                                               *)
(* ------------------------------------------------------------------ *)

\* execute, from entry to an early return
BuildReject ==
    /\ tool = "build"
    /\ pc = "start"
    /\ BuildGuard(req, world) # <<>>
    /\ volume' = IF BuildGuard(req, world) \in {MsgVolume, MsgNoWorld}
                 THEN Volume(Coords(req)) ELSE volume
    /\ outcome' = Failure(BuildGuard(req, world))
    /\ pc' = "done"
    /\ UNCHANGED <<world, tool, req, blocksPlaced, gateVars, cur, got, seqVars>>

\* execute, from entry to its first await
BuildStart ==
    /\ tool = "build"
    /\ pc = "start"
    /\ BuildGuard(req, world) = <<>>
    /\ volume' = Volume(Coords(req))
    /\ calls' = Append(calls, OuterFill(req))
    /\ inflight' = inflight + 1
    /\ pc' = IF req.hollow THEN "outer" ELSE "solid"
    /\ UNCHANGED <<world, tool, req, blocksPlaced, returns, outcome, cur, got, seqVars>>

\* the outer fill of a hollow build resolves with n; the inner fill is issued if
\* there is an interior, otherwise execute returns
OuterResolved(n) ==
    /\ pc = "outer"
    /\ returns' = Append(returns, n)
    /\ blocksPlaced' = n
    /\ IF HasInterior(Coords(req))
       THEN /\ calls' = Append(calls, InnerFill(req))
            /\ inflight' = inflight
            /\ pc' = "inner"
            /\ UNCHANGED outcome
       ELSE /\ inflight' = inflight - 1
            /\ outcome' = Built(n)
            /\ pc' = "done"
            /\ UNCHANGED calls
    /\ UNCHANGED <<world, tool, req, volume, cur, got, seqVars>>

\* the inner fill resolves with n: blocksPlaced -= removedBlocks
InnerResolved(n) ==
    /\ pc = "inner"
    /\ returns' = Append(returns, n)
    /\ blocksPlaced' = blocksPlaced - n
    /\ inflight' = inflight - 1
    /\ outcome' = Built(blocksPlaced - n)
    /\ pc' = "done"
    /\ UNCHANGED <<world, tool, req, volume, calls, cur, got, seqVars>>

\* the single fill of a solid build resolves with n
SolidResolved(n) ==
    /\ pc = "solid"
    /\ returns' = Append(returns, n)
    /\ blocksPlaced' = n
    /\ inflight' = inflight - 1
    /\ outcome' = Built(n)
    /\ pc' = "done"
    /\ UNCHANGED <<world, tool, req, volume, calls, cur, got, seqVars>>

\* variant: a rejected outer fill is followed by the inner fill
FillRejected_ContinuesToInner(e) ==
    /\ pc \in {"outer", "inner", "solid"}
    /\ IF pc = "outer"
       THEN /\ calls' = Append(calls, InnerFill(req))
            /\ pc' = "inner"
            /\ UNCHANGED <<inflight, outcome>>
       ELSE /\ inflight' = inflight - 1
            /\ outcome' = Failure(MsgBuildingError(e))
            /\ pc' = "done"
            /\ UNCHANGED calls
    /\ UNCHANGED <<world, tool, req, buildVars, returns, cur, got, seqVars>>

\* variant: a rejected inner fill is swallowed and the build reports success
FillRejected_SwallowsInner(e) ==
    /\ pc \in {"outer", "inner", "solid"}
    /\ inflight' = inflight - 1
    /\ outcome' = IF pc = "inner" THEN Built(blocksPlaced)
                  ELSE Failure(MsgBuildingError(e))
    /\ pc' = "done"
    /\ UNCHANGED <<world, tool, req, buildVars, calls, returns, cur, got, seqVars>>

\* a fill rejects with error e: the inner catch returns 'Building error: ...'
FillRejected(e) ==
    /\ pc \in {"outer", "inner", "solid"}
    /\ inflight' = inflight - 1
    /\ outcome' = Failure(MsgBuildingError(e))
    /\ pc' = "done"
    /\ UNCHANGED <<world, tool, req, buildVars, calls, returns, cur, got, seqVars>>

(* ------------------------------------------------------------------ *)
(* WorldTool: requests and pure helpers                                *)
(* ------------------------------------------------------------------ *)

\* the arguments of WorldTool.execute
Args(action, time, weather, duration, message, target, command, steps) ==
    [action |-> action, time |-> time, weather |-> weather, duration |-> duration,
     message |-> message, target |-> target, command |-> command, steps |-> steps]

NoArgs == Args(None, None, None, None, None, None, None, None)

\* a SequenceStep: its type and the other fields it carries
Step(type, action, time, command) ==
    [type |-> type, action |-> action, time |-> time, weather |-> None,
     duration |-> None, message |-> None, target |-> None, command |-> command]

WorldActions ==
    {"set_time", "get_time", "get_day", "set_weather", "get_weather", "get_players",
     "get_world_info", "send_message", "run_command", "get_connection_info", "sequence"}

\* tick values: both ends of every band of getTimeDescription, and values outside
\* the schema's 0..24000
Times ==
    {-1, 0, 999, 1000, 4999, 5000, 6000, 6999, 7000, 10999, 11000, 12999, 13000,
     16999, 17000, 18999, 19000, 24000, 25000}
Durations == {None, Some(0), Some(100)}

\* weather strings are character sequences, so that toLowerCase does real work
Weathers ==
    {<<>>, <<"r", "a", "i", "n">>, <<"R", "a", "i", "n">>,
     <<"T", "H", "U", "N", "D", "E", "R">>, <<"c", "l", "e", "a", "r">>,
     <<"s", "n", "o", "w">>, <<"r", "a", "i", "n", "y">>}

StepSet ==
    {Step(Some("wait"), None, None, None),
     Step(Some("get_day"), None, None, None),
     Step(Some("get_time"), None, None, None),
     Step(Some("set_time"), None, Some(6000), None),
     Step(Some("set_time"), None, None, None),
     Step(Some("set_time"), None, Some(25000), None),
     Step(Some("bogus"), None, None, None),
     Step(Some("get_world_info"), None, None, None),
     Step(Some("get_day"), Some("run_command"), None, Some("kill @a"))}

StepSeqs == UNION {[1..n -> StepSet] : n \in 0..MaxSteps}

WorldRequests ==
    {Args(a, None, None, None, None, None, None, None) :
        a \in {None, Some("bogus")} \cup {Some(w) : w \in WorldActions}}
    \cup {Args(Some("set_time"), Some(t), None, None, None, None, None, None) : t \in Times}
    \cup {Args(Some("set_weather"), None, Some(w), d, None, None, None, None) :
            w \in Weathers, d \in Durations}
    \cup {Args(Some("send_message"), None, None, None, Some(m), t, None, None) :
            m \in {"", "hi"}, t \in {None, Some("Steve")}}
    \cup {Args(Some("run_command"), None, None, None, None, None, Some(c), None) :
            c \in {"", "say hi"}}
    \cup {Args(Some("sequence"), None, None, None, None, None, None, Some(ss)) :
            ss \in StepSeqs}

\* variant: the Dawn band closed at 1000
GetTimeDescription_InclusiveDawn(ticks) ==
    IF ticks >= 0 /\ ticks <= 1000 THEN "Dawn"
    ELSE IF ticks >= 1000 /\ ticks < 5000 THEN "Morning"
    ELSE IF ticks >= 5000 /\ ticks < 7000 THEN "Noon"
    ELSE IF ticks >= 7000 /\ ticks < 11000 THEN "Afternoon"
    ELSE IF ticks >= 11000 /\ ticks < 13000 THEN "Dusk"
    ELSE IF ticks >= 13000 /\ ticks < 17000 THEN "Night"
    ELSE IF ticks >= 17000 /\ ticks < 19000 THEN "Midnight"
    ELSE "Late Night"

\* private getTimeDescription(ticks)
GetTimeDescription(ticks) ==
    IF ticks >= 0 /\ ticks < 1000 THEN "Dawn"
    ELSE IF ticks >= 1000 /\ ticks < 5000 THEN "Morning"
    ELSE IF ticks >= 5000 /\ ticks < 7000 THEN "Noon"
    ELSE IF ticks >= 7000 /\ ticks < 11000 THEN "Afternoon"
    ELSE IF ticks >= 11000 /\ ticks < 13000 THEN "Dusk"
    ELSE IF ticks >= 13000 /\ ticks < 17000 THEN "Night"
    ELSE IF ticks >= 17000 /\ ticks < 19000 THEN "Midnight"
    ELSE "Late Night"

UpperLetters ==
    <<"A", "B", "C", "D", "E", "F", "G", "H", "I", "J", "K", "L", "M",
      "N", "O", "P", "Q", "R", "S", "T", "U", "V", "W", "X", "Y", "Z">>
LowerLetters ==
    <<"a", "b", "c", "d", "e", "f", "g", "h", "i", "j", "k", "l", "m",
      "n", "o", "p", "q", "r", "s", "t", "u", "v", "w", "x", "y", "z">>

\* String.prototype.toLowerCase
ToLowerCase(s) ==
    [i \in 1..Len(s) |->
        IF \E k \in 1..Len(UpperLetters) : UpperLetters[k] = s[i]
        THEN LowerLetters[CHOOSE k \in 1..Len(UpperLetters) : UpperLetters[k] = s[i]]
        ELSE s[i]]

\* variant: the weather string compared without lower-casing
NormalizeWeatherType_CaseSensitive(weather) ==
    IF weather = <<"c", "l", "e", "a", "r">> THEN "Clear"
    ELSE IF weather = <<"r", "a", "i", "n">> THEN "Rain"
    ELSE IF weather = <<"t", "h", "u", "n", "d", "e", "r">> THEN "Thunder"
    ELSE "Clear"

\* private normalizeWeatherType(weather)
NormalizeWeatherType(weather) ==
    LET w == ToLowerCase(weather) IN
    IF w = <<"c", "l", "e", "a", "r">> THEN "Clear"
    ELSE IF w = <<"r", "a", "i", "n">> THEN "Rain"
    ELSE IF w = <<"t", "h", "u", "n", "d", "e", "r">> THEN "Thunder"
    ELSE "Clear"

\* what a stretch of execute ends with: a return, an awaited gateway call, or the
\* hand-over to executeSequence
Ret(o) == [kind |-> "return", outcome |-> o, call |-> Call("", <<>>)]
Await(c) == [kind |-> "call", outcome |-> NoOutcome, call |-> c]
RunSequence == [kind |-> "sequence", outcome |-> NoOutcome, call |-> Call("", <<>>)]

\* data: { action, result, timestamp }
Data(a, result) == <<a.action[1], result>>

\* variant: an omitted time is taken as 0
SetTime_DefaultsToDawn(a) == Await(Call("setTimeOfDay", <<Default(a.time, 0)>>))

\* case 'set_time', to its await or return
SetTime(a) ==
    IF a.time = None THEN Ret(Failure(MsgTimeRequired))
    ELSE Await(Call("setTimeOfDay", <<a.time[1]>>))

\* the switch of execute, from its head to the first await or return
WorldSwitch(a) ==
    LET act == a.action IN
    IF act = Some("set_time") THEN SetTime(a)
    ELSE IF act = Some("get_time") THEN Await(Call("getTimeOfDay", <<>>))
    ELSE IF act = Some("get_day") THEN Await(Call("getDay", <<>>))
    ELSE IF act = Some("set_weather") THEN
        IF a.weather = None \/ a.weather = Some(<<>>) THEN Ret(Failure(MsgWeatherRequired))
        ELSE Await(Call("setWeather", <<NormalizeWeatherType(a.weather[1]), a.duration>>))
    ELSE IF act = Some("get_weather") THEN Await(Call("getWeather", <<>>))
    ELSE IF act = Some("get_players") THEN Await(Call("getPlayers", <<>>))
    ELSE IF act = Some("get_world_info") THEN
        Ret(Success(<<"World info retrieved">>, Data(a, <<>>)))
    ELSE IF act = Some("send_message") THEN
        IF a.message = None \/ a.message = Some("") THEN Ret(Failure(MsgMessageRequired))
        ELSE Await(Call("sendMessage", <<a.message[1], a.target>>))
    ELSE IF act = Some("run_command") THEN
        IF a.command = None \/ a.command = Some("") THEN Ret(Failure(MsgCommandRequired))
        ELSE Await(Call("runCommand", <<a.command[1]>>))
    ELSE IF act = Some("get_connection_info") THEN
        Ret(Success(<<"Connection info retrieved">>, Data(a, <<>>)))
    ELSE IF act = Some("sequence") THEN
        IF a.steps = None THEN Ret(Failure(MsgStepsRequired)) ELSE RunSequence
    ELSE Ret(Failure(MsgUnknownAction))

\* execute, from entry: the world check, then the switch
WorldEntry(a, w) == IF ~w THEN Ret(Failure(MsgNoWorld)) ELSE WorldSwitch(a)

\* execute after an await has resolved; g holds the values resolved so far
WorldResume(a, g) ==
    LET act == a.action[1] IN
    IF act = "set_time" THEN
        Ret(Success(<<"Time set to", GetTimeDescription(a.time[1])>>, Data(a, <<>>)))
    ELSE IF act = "get_time" THEN
        IF Len(g) = 1 THEN Await(Call("getDay", <<>>))
        ELSE IF Len(g) = 2 THEN Await(Call("getCurrentTick", <<>>))
        ELSE Ret(Success(<<"Current time", GetTimeDescription(g[1])>>,
                         Data(a, <<g[1], g[2], g[3], GetTimeDescription(g[1])>>)))
    ELSE IF act = "get_day" THEN Ret(Success(<<"Current day">>, Data(a, <<g[1]>>)))
    ELSE IF act = "set_weather" THEN
        Ret(Success(<<"Weather set to">> \o a.weather[1] \o
                    (IF a.duration \notin {None, Some(0)} THEN <<"for ticks">> ELSE <<>>),
                    Data(a, <<>>)))
    ELSE IF act = "get_weather" THEN Ret(Success(<<"Current weather">>, Data(a, <<g[1]>>)))
    ELSE IF act = "get_players" THEN
        Ret(Success(<<"Found players online">>, Data(a, <<g[1]>>)))
    ELSE IF act = "send_message" THEN
        Ret(Success(IF a.target # None
                    THEN <<"Message sent to", a.target[1], a.message[1]>>
                    ELSE <<"Message sent to all players", a.message[1]>>,
                    Data(a, <<>>)))
    ELSE Ret(Success(<<"Command executed", a.command[1]>>, Data(a, <<g[1]>>)))

\* const worldArgs = { action: step.type, ...step }
WorldArgs(step) ==
    Args(IF step.action # None THEN step.action ELSE step.type,
         step.time, step.weather, step.duration, step.message, step.target,
         step.command, None)

(* ------------------------------------------------------------------ *)
(* BaseTool.executeSequence and its wait step                          *)
(* ------------------------------------------------------------------ *)

\* the outcome of a wait step once its delay has elapsed
WaitOutcome == Success(<<"Waited">>, <<>>)

\* the entry recorded for step i (1-based here, 0-based in the entry)
Record(rs, i, o) ==
    Append(rs, [index |-> i - 1, success |-> o.success, message |-> o.message,
                data |-> o.data])

\* variant: a failed step ends the sequence
SeqContinue_StopOnFailure(i, o, n) == IF o.success THEN i + 1 ELSE n + 1

\* the index of the step that follows step i, which returned o, of n steps
SeqContinue(i, o, n) == i + 1

\* variant: success when any step succeeded
Aggregate_AnySucceeds(rs) ==
    [success |-> \E i \in 1..Len(rs) : rs[i].success,
     message |-> <<"Sequence completed">>,
     data |-> rs]

\* the aggregated outcome of a sequence whose recorded entries are rs
Aggregate(rs) ==
    [success |-> \A i \in 1..Len(rs) : rs[i].success,
     message |-> <<"Sequence completed">>,
     data |-> rs]

(* ------------------------------------------------------------------ *)
(* WorldTool.execute and the sequence                                  *)
(* ------------------------------------------------------------------ *)

Steps == req.steps[1]

\* the running execute returns o: to the caller, or to executeSequence
Deliver(o) ==
    IF idx = 0
    THEN /\ outcome' = o
         /\ pc' = "done"
         /\ UNCHANGED <<idx, results, stepOutcomes>>
    ELSE /\ stepOutcomes' = Append(stepOutcomes, o)
         /\ results' = Record(results, idx, o)
         /\ idx' = SeqContinue(idx, o, Len(Steps))
         /\ pc' = "seq"
         /\ UNCHANGED outcome

\* the caller's invocation of execute, to its first await or return
WorldExecute ==
    /\ tool = "world"
    /\ pc = "start"
    /\ cur' = req
    /\ got' = <<>>
    /\ LET d == WorldEntry(req, world) IN
       IF d.kind = "return"
       THEN /\ outcome' = d.outcome
            /\ pc' = "done"
            /\ UNCHANGED <<gateVars, idx>>
       ELSE IF d.kind = "call"
       THEN /\ calls' = Append(calls, d.call)
            /\ inflight' = inflight + 1
            /\ pc' = "await"
            /\ UNCHANGED <<returns, outcome, idx>>
       ELSE /\ idx' = 1
            /\ pc' = "seq"
            /\ UNCHANGED <<gateVars, outcome>>
    /\ UNCHANGED <<world, tool, req, buildVars, results, started, dispatched, stepOutcomes>>

\* executeSequence starts step idx: executeSequenceStep(step, index)
SeqStep ==
    /\ pc = "seq"
    /\ idx <= Len(Steps)
    /\ started' = Append(started, idx)
    /\ LET step == Steps[idx] IN
       IF step.type = Some("wait")
       THEN /\ pc' = "wait"
            /\ UNCHANGED <<gateVars, outcome, cur, got, idx, results, dispatched,
                           stepOutcomes>>
       ELSE LET wa == WorldArgs(step)
                d == WorldEntry(wa, world) IN
            /\ dispatched' = Append(dispatched,
                   [index |-> idx, type |-> step.type, action |-> wa.action])
            /\ cur' = wa
            /\ got' = <<>>
            /\ IF d.kind = "call"
               THEN /\ calls' = Append(calls, d.call)
                    /\ inflight' = inflight + 1
                    /\ pc' = "await"
                    /\ UNCHANGED <<returns, outcome, idx, results, stepOutcomes>>
               ELSE /\ Deliver(d.outcome)
                    /\ UNCHANGED gateVars
    /\ UNCHANGED <<world, tool, req, buildVars>>

\* the delay of a wait step has elapsed
WaitElapsed ==
    /\ pc = "wait"
    /\ Deliver(WaitOutcome)
    /\ UNCHANGED <<world, tool, req, buildVars, gateVars, cur, got, started, dispatched>>

\* every step has returned: executeSequence returns the aggregated outcome
SeqFinish ==
    /\ pc = "seq"
    /\ idx > Len(Steps)
    /\ outcome' = Aggregate(results)
    /\ pc' = "done"
    /\ UNCHANGED <<world, tool, req, buildVars, gateVars, cur, got, seqVars>>

\* the awaited gateway call resolves with v; execute runs on to its next await
\* or to its return
GatewayResolved(v) ==
    /\ pc = "await"
    /\ returns' = Append(returns, v)
    /\ got' = Append(got, v)
    /\ LET r == WorldResume(cur, Append(got, v)) IN
       IF r.kind = "call"
       THEN /\ calls' = Append(calls, r.call)
            /\ inflight' = inflight
            /\ pc' = "await"
            /\ UNCHANGED <<outcome, idx, results, stepOutcomes>>
       ELSE /\ inflight' = inflight - 1
            /\ Deliver(r.outcome)
            /\ UNCHANGED calls
    /\ UNCHANGED <<world, tool, req, buildVars, cur, started, dispatched>>

\* the awaited gateway call rejects with e: the catch of execute returns
\* 'World management error: ...'
GatewayRejected(e) ==
    /\ pc = "await"
    /\ inflight' = inflight - 1
    /\ Deliver(Failure(MsgWorldError(e)))
    /\ UNCHANGED <<world, tool, req, buildVars, calls, returns, cur, got, started,
                   dispatched>>

(* ------------------------------------------------------------------ *)
(* Specification                                                       *)
(* ------------------------------------------------------------------ *)

Init ==
    /\ world \in BOOLEAN
    /\ tool \in {"build", "world"}
    /\ req \in IF tool = "build" THEN BuildRequests ELSE WorldRequests
    /\ pc = "start"
    /\ volume = -1
    /\ blocksPlaced = 0
    /\ calls = <<>>
    /\ returns = <<>>
    /\ inflight = 0
    /\ outcome = NoOutcome
    /\ cur = NoArgs
    /\ got = <<>>
    /\ idx = 0
    /\ results = <<>>
    /\ started = <<>>
    /\ dispatched = <<>>
    /\ stepOutcomes = <<>>

Next ==
    \/ BuildReject
    \/ BuildStart
    \/ \E n \in 0..MaxAffected : OuterResolved(n)
    \/ \E n \in 0..MaxAffected : InnerResolved(n)
    \/ \E n \in 0..MaxAffected : SolidResolved(n)
    \/ \E e \in GatewayErrors : FillRejected(e)
    \/ WorldExecute
    \/ SeqStep
    \/ WaitElapsed
    \/ SeqFinish
    \/ \E v \in GatewayValues : GatewayResolved(v)
    \/ \E e \in GatewayErrors : GatewayRejected(e)

Spec == Init /\ [][Next]_vars

(* ------------------------------------------------------------------ *)
(* Vocabulary of the properties                                        *)
(* ------------------------------------------------------------------ *)

\* a request to the build tool that asks for a build (action 'build' or omitted)
BuildRequest == tool = "build" /\ req.action \in {None, Some("build")}

\* a request to the build tool that gives all six coordinates
Complete == tool = "build" /\ Omitted(req) = {}

\* number of lattice positions of the inclusive box between two corners
BoxSize(p, q) == (Abs(q.x - p.x) + 1) * (Abs(q.y - p.y) + 1) * (Abs(q.z - p.z) + 1)

\* inclusive span of an axis between two floored coordinates
Span(a, b) == Max(a, b) - Min(a, b) + 1

FloorY1 == Floor(req.y1)
FloorY2 == Floor(req.y2)
YOutside ==
    \/ ~IsNaN(FloorY1) /\ (FloorY1 < -64 \/ FloorY1 > 320)
    \/ ~IsNaN(FloorY2) /\ (FloorY2 < -64 \/ FloorY2 > 320)

EverySpanAtLeast3 ==
    /\ Complete
    /\ Span(Floor(req.x1), Floor(req.x2)) >= 3
    /\ Span(Floor(req.y1), Floor(req.y2)) >= 3
    /\ Span(Floor(req.z1), Floor(req.z2)) >= 3

\* the request with its two corners exchanged
Swapped(r) ==
    [r EXCEPT !.x1 = r.x2, !.y1 = r.y2, !.z1 = r.z2,
              !.x2 = r.x1, !.y2 = r.y1, !.z2 = r.z1]

\* the material of the request, namespaced
RequestedBlock ==
    LET m == IF req.material = None THEN <<"minecraft", ":", "stone">> ELSE req.material[1]
    IN IF \E i \in 1..Len(m) : m[i] = ":" THEN m ELSE <<"minecraft", ":">> \o m

(* ------------------------------------------------------------------ *)
(* C1                                                                  *)
(* ------------------------------------------------------------------ *)

\* C1: every fill call that a build issues covers an inclusive box of at most
\* 32768 lattice positions, (|x2-x1|+1)*(|y2-y1|+1)*(|z2-z1|+1) <= 32768 for
\* the two corners submitted in the call.
C1_FillWithinCap ==
    \A i \in 1..Len(calls) :
        (calls[i].op = "fillBlocks" /\ Complete) =>
            BoxSize(calls[i].args[1], calls[i].args[2]) <= 32768

(* ------------------------------------------------------------------ *)
(* C2                                                                  *)
(* ------------------------------------------------------------------ *)

\* C2 as stated: a build request whose region has computed volume above 32768
\* returns success=false with the volume message and issues no gateway call.
C2_OversizeGivesVolumeMessage ==
    (BuildRequest /\ Complete /\ Volume(Coords(req)) > 32768) =>
        /\ calls = <<>>
        /\ pc = "done" => outcome = Failure(MsgVolume)

\* C2 amended: a build request whose floored y coordinates both lie in -64..320
\* and whose region has computed volume above 32768 returns success=false with
\* the volume message and issues no gateway call.
C2_OversizeInBoundsGivesVolumeMessage ==
    (BuildRequest /\ Complete /\ ~YOutside /\ Volume(Coords(req)) > 32768) =>
        /\ calls = <<>>
        /\ pc = "done" => outcome = Failure(MsgVolume)

C2_Witness ==
    /\ BuildRequest /\ Complete /\ ~YOutside /\ Volume(Coords(req)) > 32768
    /\ world
    /\ pc = "done"
    /\ outcome.message = MsgVolume

(* ------------------------------------------------------------------ *)
(* C3                                                                  *)
(* ------------------------------------------------------------------ *)

\* C3: a build request in which the floored y of either corner is below -64 or
\* above 320 returns success=false with the bounds message and issues no gateway
\* call, whatever the other coordinates, the material and the hollow flag are.
C3_OutOfBoundsGivesBoundsMessage ==
    (BuildRequest /\ YOutside) =>
        /\ calls = <<>>
        /\ pc = "done" => outcome = Failure(MsgYBounds)

C3_Witness ==
    /\ BuildRequest /\ FloorY2 > 320 /\ FloorY1 \in -64..320
    /\ world /\ req.hollow
    /\ pc = "done"
    /\ outcome.message = MsgYBounds

(* ------------------------------------------------------------------ *)
(* C4                                                                  *)
(* ------------------------------------------------------------------ *)

\* C4: the volume the guard computes for (corner1, corner2) equals the volume
\* it computes for (corner2, corner1).
C4_VolumeSymmetric ==
    (Complete /\ volume # -1) => volume = Volume(Coords(Swapped(req)))

(* ------------------------------------------------------------------ *)
(* C5                                                                  *)
(* ------------------------------------------------------------------ *)

\* C5: a hollow build that passes validation, with a connected world and a
\* gateway that does not fail, issues exactly two fill calls and reports the
\* outer count minus the inner count when every axis has inclusive span >= 3,
\* and issues exactly one fill call and reports the outer count otherwise.
C5_HollowCallsAndCount ==
    (Complete /\ req.hollow /\ pc = "done" /\ outcome.success) =>
        IF EverySpanAtLeast3
        THEN /\ Len(calls) = 2
             /\ calls[1].op = "fillBlocks" /\ calls[2].op = "fillBlocks"
             /\ Len(returns) = 2
             /\ outcome.data = <<returns[1] - returns[2]>>
        ELSE /\ Len(calls) = 1
             /\ calls[1].op = "fillBlocks"
             /\ Len(returns) = 1
             /\ outcome.data = <<returns[1]>>

C5_Witness ==
    /\ tool = "build" /\ req.hollow /\ pc = "done" /\ outcome.success
    /\ EverySpanAtLeast3
    /\ Span(Floor(req.x1), Floor(req.x2)) = 3
    /\ returns = <<2, 1>>
    /\ outcome.data = <<1>>

(* ------------------------------------------------------------------ *)
(* C6                                                                  *)
(* ------------------------------------------------------------------ *)

\* C6: in a hollow build that has an interior, the first fill is over the full
\* requested region with the namespaced material; the second fill is issued only
\* after the first has returned and is over (per-axis min + 1)..(per-axis max - 1)
\* with minecraft:air, whatever the order of the corners; and no two gateway
\* calls of a request are ever in flight together.
C6_OuterThenInner ==
    /\ inflight <= 1
    /\ (tool = "build" /\ req.hollow /\ EverySpanAtLeast3) =>
        /\ Len(calls) <= 2
        /\ Len(calls) >= 1 =>
              calls[1] = [op |-> "fillBlocks",
                          args |-> <<[x |-> Floor(req.x1), y |-> Floor(req.y1),
                                      z |-> Floor(req.z1)],
                                     [x |-> Floor(req.x2), y |-> Floor(req.y2),
                                      z |-> Floor(req.z2)],
                                     RequestedBlock>>]
        /\ Len(calls) = 2 =>
              /\ Len(returns) >= 1
              /\ calls[2] = [op |-> "fillBlocks",
                             args |-> <<[x |-> Min(Floor(req.x1), Floor(req.x2)) + 1,
                                         y |-> Min(Floor(req.y1), Floor(req.y2)) + 1,
                                         z |-> Min(Floor(req.z1), Floor(req.z2)) + 1],
                                        [x |-> Max(Floor(req.x1), Floor(req.x2)) - 1,
                                         y |-> Max(Floor(req.y1), Floor(req.y2)) - 1,
                                         z |-> Max(Floor(req.z1), Floor(req.z2)) - 1],
                                        <<"minecraft", ":", "air">> >>]

C6_Witness ==
    /\ tool = "build" /\ req.hollow /\ EverySpanAtLeast3
    /\ Floor(req.x1) > Floor(req.x2)
    /\ req.material = Some(<<"stone">>)
    /\ pc = "inner"
    /\ Len(calls) = 2
    /\ inflight = 1

(* ------------------------------------------------------------------ *)
(* C7                                                                  *)
(* ------------------------------------------------------------------ *)

\* C7: when no world session is connected, every operation of the build tool
\* and of the world tool returns the connectivity failure, whatever its
\* arguments, and issues no gateway call.
C7_UnavailableFirst ==
    ~world =>
        /\ calls = <<>>
        /\ pc = "done" => outcome = Failure(MsgNoWorld)

(* ------------------------------------------------------------------ *)
(* C8                                                                  *)
(* ------------------------------------------------------------------ *)

\* C8: for every sequence step whose type is not 'wait', execute is invoked with
\* the action selector equal to the step's type, whatever other fields the step
\* carries.
C8_StepTypeSelectsAction ==
    \A i \in 1..Len(dispatched) : dispatched[i].action = dispatched[i].type

(* ------------------------------------------------------------------ *)
(* C9                                                                  *)
(* ------------------------------------------------------------------ *)

\* a sequence request that reached executeSequence
InSequence == tool = "world" /\ idx > 0

\* C9: the steps of a sequence are started in list order, each exactly once,
\* step i+1 only after step i has finished, failed steps included; and when the
\* sequence is done an outcome is recorded for each index 0..n-1.
C9_EveryStepOnceInOrder ==
    InSequence =>
        /\ Len(started) <= Len(Steps)
        /\ \A k \in 1..Len(started) : started[k] = k
        /\ Len(results) <= Len(started)
        /\ Len(started) <= Len(results) + 1
        /\ \A k \in 1..Len(results) : results[k].index = k - 1
        /\ pc = "done" => (Len(started) = Len(Steps) /\ Len(results) = Len(Steps))

C9_Witness ==
    /\ InSequence
    /\ pc = "done"
    /\ Len(Steps) = 2
    /\ started = <<1, 2>>
    /\ ~results[1].success
    /\ results[2].success

(* ------------------------------------------------------------------ *)
(* C10                                                                 *)
(* ------------------------------------------------------------------ *)

\* C10: the aggregated outcome of a sequence has success=true if and only if
\* every step's outcome has success=true, and its data carries the per-step
\* outcomes in step order, exactly one entry per step.
C10_AggregateIffAllSucceed ==
    (InSequence /\ pc = "done") =>
        /\ outcome.success = (\A i \in 1..Len(stepOutcomes) : stepOutcomes[i].success)
        /\ Len(stepOutcomes) = Len(Steps)
        /\ Len(outcome.data) = Len(Steps)
        /\ \A i \in 1..Len(outcome.data) :
              /\ outcome.data[i].index = i - 1
              /\ outcome.data[i].success = stepOutcomes[i].success
              /\ outcome.data[i].message = stepOutcomes[i].message
              /\ outcome.data[i].data = stepOutcomes[i].data

C10_Witness ==
    /\ InSequence
    /\ pc = "done"
    /\ Len(Steps) = 2
    /\ ~outcome.success
    /\ outcome.data[1].success
    /\ ~outcome.data[2].success
    /\ outcome.data[2].message = MsgUnknownAction

(* ------------------------------------------------------------------ *)
(* C11                                                                 *)
(* ------------------------------------------------------------------ *)

\* number of gateway calls that have rejected: issued, neither returned nor pending
Rejected == Len(calls) - Len(returns) - inflight

\* the failure outcome the running tool gives for a gateway error e
GatewayFailure(e) ==
    Failure(IF tool = "build" THEN MsgBuildingError(e) ELSE MsgWorldError(e))

\* C11: when a gateway call rejects during a build or a world action, the
\* operation returns one outcome with success=false whose message carries the
\* underlying error message, and issues no gateway call after the failed one:
\* the step in which the call rejects issues no call and leaves none pending,
\* and hands the failure outcome to the caller (or, for a step of a sequence,
\* to the sequence); an operation that has returned takes no further step.
C11_RejectedCallEndsOperation ==
    [][/\ Rejected' > Rejected =>
            /\ Rejected' = Rejected + 1
            /\ calls' = calls
            /\ inflight' = 0
            /\ \E e \in GatewayErrors :
                  IF idx = 0
                  THEN pc' = "done" /\ outcome' = GatewayFailure(e)
                  ELSE stepOutcomes' = Append(stepOutcomes, GatewayFailure(e))
       /\ pc = "done" => calls' = calls /\ outcome' = outcome]_vars

C11_Witness ==
    /\ tool = "build" /\ req.hollow /\ EverySpanAtLeast3
    /\ pc = "done"
    /\ Rejected = 1 /\ Len(calls) = 1 /\ returns = <<>>
    /\ outcome = Failure(MsgBuildingError("timeout"))

(* ------------------------------------------------------------------ *)
(* C12                                                                 *)
(* ------------------------------------------------------------------ *)

\* C12 as stated: a build request that omits any of the six coordinates, or
\* names an action other than 'build', issues no gateway call and returns an
\* outcome with success=false.
C12_IncompleteRequestIssuesNoCall ==
    (tool = "build" /\ (Omitted(req) # {} \/ ~BuildRequest)) =>
        /\ calls = <<>>
        /\ pc = "done" => ~outcome.success

(* ------------------------------------------------------------------ *)
(* C13                                                                 *)
(* ------------------------------------------------------------------ *)

\* a request to the world tool that names no known action or lacks the field
\* its action needs
WorldInvalid ==
    /\ tool = "world"
    /\ \/ req.action \notin {Some(w) : w \in WorldActions}
       \/ req.action = Some("set_time") /\ req.time = None
       \/ req.action = Some("set_weather") /\ req.weather = None
       \/ req.action = Some("send_message") /\ req.message = None
       \/ req.action = Some("run_command") /\ req.command = None
       \/ req.action = Some("sequence") /\ req.steps = None

\* C13: with a connected world, a world-tool request with an unknown action,
\* set_time without time, set_weather without weather, send_message without
\* message, run_command without command, or sequence without steps returns an
\* outcome with success=false and issues no gateway call.
C13_InvalidWorldRequestIssuesNoCall ==
    (WorldInvalid /\ world) =>
        /\ calls = <<>>
        /\ inflight = 0
        /\ pc \in {"start", "done"}
        /\ pc = "done" => ~outcome.success

C13_Witness ==
    /\ WorldInvalid /\ world
    /\ req.action = Some("set_time")
    /\ pc = "done"
    /\ outcome = Failure(MsgTimeRequired)

(* ------------------------------------------------------------------ *)
(* C14                                                                 *)
(* ------------------------------------------------------------------ *)

\* C14 as stated: a set_time request whose time lies outside 0..24000 never
\* reaches the gateway: every setTimeOfDay call carries a time in 0..24000.
C14_TimeOutOfRangeNeverReachesGateway ==
    \A i \in 1..Len(calls) :
        calls[i].op = "setTimeOfDay" => calls[i].args[1] \in 0..24000

(* ------------------------------------------------------------------ *)
(* C15                                                                 *)
(* ------------------------------------------------------------------ *)

\* f is the floor of the number held as h half units
IsFloorOf(f, h) == 2 * f <= h /\ h < 2 * f + 2

\* a solid build request that passes validation with a connected world
SolidPassing ==
    /\ BuildRequest /\ Complete
    /\ ~req.hollow
    /\ world
    /\ BuildGuard(req, world) = <<>>

\* C15: a solid build that passes validation with a connected world issues
\* exactly one fill call, whose corners are the floored request corners in the
\* order given and whose material is the namespaced material; a coordinate
\* that is already an integer is submitted unchanged.
C15_SolidIsOneFillAsGiven ==
    SolidPassing =>
        /\ pc = "start" => calls = <<>>
        /\ pc # "start" =>
            /\ Len(calls) = 1
            /\ calls[1].op = "fillBlocks"
            /\ LET from == calls[1].args[1]
                   to == calls[1].args[2] IN
               /\ IsFloorOf(from.x, req.x1) /\ IsFloorOf(from.y, req.y1)
               /\ IsFloorOf(from.z, req.z1)
               /\ IsFloorOf(to.x, req.x2) /\ IsFloorOf(to.y, req.y2)
               /\ IsFloorOf(to.z, req.z2)
               /\ req.x1 % 2 = 0 => 2 * from.x = req.x1
               /\ req.y1 % 2 = 0 => 2 * from.y = req.y1
               /\ req.z1 % 2 = 0 => 2 * from.z = req.z1
               /\ req.x2 % 2 = 0 => 2 * to.x = req.x2
               /\ req.y2 % 2 = 0 => 2 * to.y = req.y2
               /\ req.z2 % 2 = 0 => 2 * to.z = req.z2
            /\ calls[1].args[3] = RequestedBlock

C15_Witness ==
    /\ SolidPassing
    /\ req.x1 = 4 /\ req.x2 = -1 /\ req.y1 = 641 /\ req.y2 = 0
    /\ pc = "done" /\ outcome.success
    /\ calls[1].args[1].x = 2 /\ calls[1].args[2].x = -1
    /\ calls[1].args[1].y = 320

(* ------------------------------------------------------------------ *)
(* C16                                                                 *)
(* ------------------------------------------------------------------ *)

\* the material names a request can give
MaterialNames == {m[1] : m \in Materials \ {None}}

HasSeparator(m) == \E i \in 1..Len(m) : m[i] = ":"

\* C16: every material a build submits to the gateway contains ':'; a requested
\* name without ':' is submitted as 'minecraft:' followed by the name, a name
\* with ':' unchanged, an omitted material as 'minecraft:stone'; normalising
\* twice gives what normalising once gives.
C16_SubmittedMaterialIsNamespaced ==
    /\ \A m \in MaterialNames : BlockId(BlockId(m)) = BlockId(m)
    /\ tool = "build" =>
        /\ \A i \in 1..Len(calls) : HasSeparator(calls[i].args[3])
        /\ calls # <<>> =>
            calls[1].args[3] =
                IF req.material = None THEN <<"minecraft", ":", "stone">>
                ELSE IF HasSeparator(req.material[1]) THEN req.material[1]
                ELSE <<"minecraft", ":">> \o req.material[1]

C16_Witness ==
    /\ tool = "build"
    /\ req.material = Some(<<"stone">>)
    /\ pc = "done" /\ outcome.success
    /\ calls[1].args[3] = <<"minecraft", ":", "stone">>

(* ------------------------------------------------------------------ *)
(* C17                                                                 *)
(* ------------------------------------------------------------------ *)

\* the label of a tick value by half-open bands
BandLabel(t) ==
    CASE t \in 0..999 -> "Dawn"
      [] t \in 1000..4999 -> "Morning"
      [] t \in 5000..6999 -> "Noon"
      [] t \in 7000..10999 -> "Afternoon"
      [] t \in 11000..12999 -> "Dusk"
      [] t \in 13000..16999 -> "Night"
      [] t \in 17000..18999 -> "Midnight"
      [] OTHER -> "Late Night"

\* C17: the time description assigns each tick value the one label of its
\* half-open band, Late Night outside every band; a successful set_time
\* reports the label of the time it set (Noon for 6000), and a successful
\* get_time the label of the time of day it read.
C17_DescriptionFollowsBands ==
    /\ \A t \in Times \cup GatewayValues : GetTimeDescription(t) = BandLabel(t)
    /\ (tool = "world" /\ pc = "done" /\ outcome.success) =>
        /\ (req.action = Some("set_time")) =>
              outcome.message = <<"Time set to", BandLabel(req.time[1])>>
        /\ (req.action = Some("get_time")) =>
              outcome.message = <<"Current time", BandLabel(returns[1])>>

C17_Witness ==
    /\ tool = "world"
    /\ req.action = Some("set_time") /\ req.time = Some(6000)
    /\ pc = "done" /\ outcome.success
    /\ outcome.message = <<"Time set to", "Noon">>

(* ------------------------------------------------------------------ *)
(* C18                                                                 *)
(* ------------------------------------------------------------------ *)

\* the weather strings of the model whose lower-case form is 'rain', 'thunder'
RainSpellings == {<<"r", "a", "i", "n">>, <<"R", "a", "i", "n">>}
ThunderSpellings == {<<"T", "H", "U", "N", "D", "E", "R">>}

\* a set_weather request with a non-empty weather string and a connected world
WeatherGiven ==
    /\ tool = "world" /\ world
    /\ req.action = Some("set_weather")
    /\ req.weather \notin {None, Some(<<>>)}

\* C18: for a non-empty weather string, set_weather with a connected world
\* issues exactly one setWeather call, whose kind is Rain iff the lower-cased
\* string is 'rain', Thunder iff it is 'thunder', Clear otherwise, and reports
\* success when that call returns.
C18_WeatherIsOneNormalisedCall ==
    WeatherGiven =>
        /\ pc = "start" => calls = <<>>
        /\ pc # "start" =>
            /\ Len(calls) = 1
            /\ calls[1].op = "setWeather"
            /\ LET kind == calls[1].args[1]
                   w == req.weather[1] IN
               /\ kind = "Rain" <=> w \in RainSpellings
               /\ kind = "Thunder" <=> w \in ThunderSpellings
               /\ kind = "Clear" <=> w \notin RainSpellings \cup ThunderSpellings
        /\ pc = "done" => (outcome.success <=> Len(returns) = 1)

C18_Witness ==
    /\ WeatherGiven
    /\ req.weather = Some(<<"T", "H", "U", "N", "D", "E", "R">>)
    /\ pc = "done" /\ outcome.success
    /\ calls[1].args[1] = "Thunder"

(* ------------------------------------------------------------------ *)
(* C19                                                                 *)
(* ------------------------------------------------------------------ *)

\* C19: a build returns success=true only if every fill call it issued has
\* returned; when a fill of a hollow build rejects after the outer fill has
\* returned, the build returns success=false, the calls issued are the outer
\* fill and the inner air fill and no other, and only the outer fill returned.
C19_SuccessNeedsEveryFill ==
    tool = "build" =>
        /\ (pc = "done" /\ outcome.success) =>
              /\ calls # <<>>
              /\ Len(returns) = Len(calls)
              /\ Rejected = 0
        /\ (req.hollow /\ returns # <<>> /\ Rejected > 0) =>
              /\ pc = "done"
              /\ ~outcome.success
              /\ inflight = 0
              /\ Len(calls) = 2 /\ Len(returns) = 1
              /\ calls[1].args[3] = RequestedBlock
              /\ calls[2].args[3] = <<"minecraft", ":", "air">>

C19_Witness ==
    /\ tool = "build" /\ req.hollow
    /\ pc = "done" /\ ~outcome.success
    /\ Len(calls) = 2 /\ Len(returns) = 1 /\ Rejected = 1
====
